---- MODULE Spec2Model ----
(***************************************************************************)
(* Model of the AI study assistant: the vector store adapter               *)
(* (vector_store.py, StudyMaterialsStore) and the orchestrator             *)
(* (agents.py, StudyAssistant).  The program is single threaded; a call    *)
(* is a stack of frames and every action is one step of the frame on top   *)
(* of the stack.  Every call to the vector engine, the embedding service   *)
(* or the chat service is a step whose outcome the environment chooses:    *)
(* "ok", "stale" (ConnectionNotExistException) or "err" (any other         *)
(* exception).                                                             *)
(***************************************************************************)
EXTENDS Integers, Sequences, FiniteSets, TLC

VARIABLES
    adapters,              \* StudyMaterialsStore objects, by alias: uri, collection attribute
    nextUri,               \* number of generated database locations (uuid + timestamp)
    conns,                 \* pymilvus connection registry: alias -> connected uri
    files,                 \* vector engine: uri -> state of the named collection
    vector_store,          \* StudyAssistant.vector_store (alias of the active adapter)
    conversation_history,  \* StudyAssistant.conversation_history
    chat_history,          \* st.session_state.chat_history of the application
    opened,                \* a StudyMaterialsStore a caller opened itself (0: none)
    stack,                 \* call stack of the running operation
    ret,                   \* value or exception handed from a callee to its caller
    stats,                 \* observations about the running / last top-level call
    budget,                \* failures the environment may still cause
    materials_processed,   \* st.session_state.materials_processed of the application
    parked                 \* stack, result and observations of a second caller

vars == <<adapters, nextUri, conns, files, vector_store, conversation_history,
          chat_history, opened, stack, ret, stats, budget, materials_processed,
          parked>>

(***************************************************************************)
(* Bounds of the model.                                                    *)
(***************************************************************************)
\* the adapter while it is opened
OpenCalls == 1      \* calls made by the user of the classes
OpenStale == 1      \* connections the registry loses
OpenErr == 1        \* other exceptions of engine and service calls
OpenConn == 7       \* failed connection attempts
\* an opened adapter
StoreCalls == 3
StoreStale == 2
StoreErr == 1
\* the assistant
MaterialCalls == 1
MaterialStale == 3
MaterialErr == 1

AssistantCalls == 2
AssistantErr == 1
\* a chat with the assistant
ChatCalls == 7
ChatErr == 1

RetryCalls == 1
RetryStale == 7
\* runs of the page with uploaded files
UploadCalls == 1
UploadErr == 1
\* the assistant after an upload, while connections are lost
RecoverCalls == 2
RecoverStale == 2
\* two callers of one assistant
RaceCalls == 2
RaceWindows == 2   \* reconnects another caller sees between disconnect and connect
\* the inputs of chunk_text
MaxTextLen == 5
MaxChunkSize == 4
MaxOverlap == 4

(***************************************************************************)
(* Program constants.                                                      *)
(***************************************************************************)
\* a mutation of max_retries: one more attempt
max_retries_more == 3 + 1
max_retries == 3
default_top_k == 5
default_chunk_size == 1000
default_overlap == 100

(***************************************************************************)
(* Locations.  A location is a string, modelled as a sequence of           *)
(* characters so that the session-scope test of the code is computed.      *)
(***************************************************************************)
NoConn == <<>>

RECURSIVE Marks(_)
Marks(n) == IF n = 0 THEN <<>> ELSE <<"x">> \o Marks(n - 1)

\* f"tmp/sa_{unique_id}_{timestamp}.db": the n-th generated name
relative_tmp_uri(n) == <<"t", "m", "p", "/">> \o Marks(n)

\* os.path.join(self.workspace_root, f"tmp/sa_{unique_id}_{timestamp}.db")
workspace_tmp_uri(n) == <<"/", "w", "/">> \o relative_tmp_uri(n)

StartsWith(s, p) == Len(s) >= Len(p) /\ SubSeq(s, 1, Len(p)) = p

Contains(s, p) ==
    \E i \in 1..(Len(s) + 1) :
        i + Len(p) - 1 <= Len(s) /\ SubSeq(s, i, i + Len(p) - 1) = p

\* "tmp" in self.uri or self.uri.startswith("./")
is_session_scoped(uri) ==
    Contains(uri, <<"t", "m", "p">>) \/ StartsWith(uri, <<".", "/">>)

\* locations a caller may pass to StudyMaterialsStore(uri=...)
UserUris == { <<".", "/", "a">>, <<"h", "t", "t", "p">>,
              <<"t", "m", "p", "/", "a">> }

(***************************************************************************)
(* The vector engine.                                                      *)
(***************************************************************************)
EmptyDb == [exists |-> FALSE, indexed |-> FALSE, loaded |-> FALSE,
            rows |-> <<>>, nextPk |-> 1]

\* connecting to a location creates its database if it is not there yet
Touch(f, uri) ==
    IF uri \in DOMAIN f THEN f
    ELSE [u \in DOMAIN f \cup {uri} |-> IF u = uri THEN EmptyDb ELSE f[u]]

Db(a) == files[conns[a]]

(***************************************************************************)
(* Call stack, results and observations.                                   *)
(***************************************************************************)
Events == {"store_try", "search_try", "embed", "reinit_sm", "reinit_srm",
           "reinit_gr", "init", "llm", "stale_call", "other_fault"}

NoPrompt == [context |-> <<>>, history |-> <<>>, user |-> <<>>]

NoConnect == [attempts |-> 0, regens |-> 0, raised |-> FALSE, scoped |-> FALSE]

NoStats == [op |-> "none", arg |-> <<>>, last_connect |-> NoConnect, connRaised |-> FALSE,
            sawErr |-> FALSE, cnt |-> [e \in Events |-> 0],
            prompt |-> NoPrompt, content |-> <<>>]

Frame(fn, pc, self, arg) ==
    [n |-> 0, arg |-> arg, fn |-> fn, pc |-> pc, self |-> self,
     rc |-> 0, g |-> 0, d |-> 1, loc |-> <<>>]

Top == stack[Len(stack)]
Pop == SubSeq(stack, 1, Len(stack) - 1)
Running(fn, pc) == stack # <<>> /\ Top.fn = fn /\ Top.pc = pc
Goto(pc) == [stack EXCEPT ![Len(stack)].pc = pc]
Call(pc, fr) == Append(Goto(pc), fr)

Val(v) == [kind |-> "val", val |-> v]
Exc(k) == [kind |-> k, val |-> <<>>]
None == Val(<<>>)

\* the caller that is not running: its stack, result and observations
Parked(st, r, s) == [stack |-> st, ret |-> r, stats |-> s]

NoParked == Parked(<<>>, None, NoStats)

Idle == stack = <<>>
Completed(op) == stack = <<>> /\ stats.op = op

\* the environment may still cause a failure of kind k
CanFault(k) == budget[k] > 0

\* what the engine answers to a call made through alias a when nothing else
\* fails: ConnectionNotExistException if the registry does not know a
Forced(a, pre) ==
    IF conns[a] = NoConn THEN "stale" ELSE IF pre THEN "ok" ELSE "err"

EngineOutcomes(a, pre) ==
    {Forced(a, pre)} \cup
    (IF CanFault("err") /\ conns[a] # NoConn THEN {"err"} ELSE {})

ServiceOutcomes == {"ok"} \cup (IF CanFault("err") THEN {"err"} ELSE {})

Spend(o, forced) ==
    IF o = forced \/ o = "ok" THEN budget ELSE [budget EXCEPT ![o] = @ - 1]

Bump(s, e) == [s EXCEPT !.cnt[e] = @ + 1]

\* the stale-connection events of a store or search are those its engine
\* calls raise; every other exception of a call is counted apart
FaultEvent(site, o) ==
    IF o = "stale" /\ site \in {"insert", "flush", "search"}
    THEN "stale_call" ELSE "other_fault"

Observe(s, site, o) ==
    IF o = "ok" THEN s ELSE Bump(s, FaultEvent(site, o))

\* the running function is about to ask the engine something through its alias
UsesConnection ==
    /\ stack # <<>>
    /\ Top.fn \in {"_setup_collection", "store_vectors", "search_vectors", "drop"}
    /\ Top.pc \notin {"after_connect", "after_setup", "after_retry"}

\* the registry loses the connection of the adapter in use: from now on the
\* engine calls made through it raise ConnectionNotExistException.  A loss
\* shows only at the next engine call, so it is taken right before one.
lose_connection ==
    /\ CanFault("stale")
    /\ UsesConnection
    /\ conns[Top.self] # NoConn
    /\ conns' = [conns EXCEPT ![Top.self] = NoConn]
    /\ budget' = [budget EXCEPT !.stale = @ - 1]
    /\ UNCHANGED <<adapters, nextUri, files, vector_store, conversation_history,
                   opened, chat_history,
                   materials_processed, parked, stack, ret, stats>>

(***************************************************************************)
(* StudyMaterialsStore._connect                                            *)
(***************************************************************************)
ConnectOutcomes ==
    {"ok"} \cup (IF CanFault("conn") THEN {"connect_fail", "list_fail"} ELSE {})

\* one iteration of the while loop: disconnect, connect, list_collections
connect_attempt ==
    /\ Running("_connect", "attempt")
    /\ Top.rc < max_retries
    /\ \E o \in ConnectOutcomes :
         LET a == Top.self
             uri == adapters[a].uri
             rc == Top.rc + 1
         IN  IF o = "ok"
             THEN /\ conns' = [conns EXCEPT ![a] = uri]
                  /\ files' = Touch(files, uri)
                  /\ stack' = Pop
                  /\ ret' = None
                  /\ stats' = [stats EXCEPT !.last_connect =
                                  [attempts |-> Top.n + 1, regens |-> Top.g,
                                   raised |-> FALSE,
                                   scoped |-> is_session_scoped(uri)]]
                  /\ UNCHANGED <<adapters, nextUri, budget>>
             ELSE /\ budget' = [budget EXCEPT !.conn = @ - 1]
                  /\ conns' = [conns EXCEPT ![a] =
                                  IF o = "list_fail" THEN uri ELSE NoConn]
                  /\ files' = IF o = "list_fail" THEN Touch(files, uri) ELSE files
                  /\ IF rc >= max_retries
                     THEN IF is_session_scoped(uri)
                          THEN /\ adapters' = [adapters EXCEPT ![a].uri =
                                                  workspace_tmp_uri(nextUri + 1)]
                               /\ nextUri' = nextUri + 1
                               /\ stack' = [stack EXCEPT
                                              ![Len(stack)].rc = 0,
                                              ![Len(stack)].n = @ + 1,
                                              ![Len(stack)].g = @ + 1]
                               /\ UNCHANGED <<ret, stats>>
                          ELSE /\ stack' = Pop
                               /\ ret' = Exc("stale")
                               /\ stats' = [stats EXCEPT
                                              !.connRaised = TRUE,
                                              !.last_connect =
                                                 [attempts |-> Top.n + 1,
                                                  regens |-> Top.g,
                                                  raised |-> TRUE,
                                                  scoped |-> FALSE]]
                               /\ UNCHANGED <<adapters, nextUri>>
                     ELSE /\ stack' = [stack EXCEPT
                                         ![Len(stack)].rc = rc,
                                         ![Len(stack)].n = @ + 1]
                          /\ UNCHANGED <<adapters, nextUri, ret, stats>>
    /\ UNCHANGED <<vector_store, conversation_history, opened, chat_history,
                   materials_processed, parked>>

\* connections.disconnect(alias=self.connection_alias), the first call of an
\* iteration, as another caller sees it before connections.connect is made;
\* the budget bounds how often the callers meet in this way
connect_disconnect ==
    /\ Running("_connect", "attempt")
    /\ CanFault("stale")
    /\ conns[Top.self] # NoConn
    /\ conns' = [conns EXCEPT ![Top.self] = NoConn]
    /\ budget' = [budget EXCEPT !.stale = @ - 1]
    /\ UNCHANGED <<adapters, nextUri, files, vector_store,
                   conversation_history, opened, chat_history,
                   materials_processed, parked, stack, ret, stats>>

(***************************************************************************)
(* StudyMaterialsStore._setup_collection                                   *)
(***************************************************************************)
\* if not connections.has_connection(alias): self._connect()
setup_has_connection ==
    /\ Running("_setup_collection", "has_connection")
    /\ IF conns[Top.self] # NoConn
       THEN stack' = Goto("has_collection")
       ELSE stack' = Call("after_connect", Frame("_connect", "attempt", Top.self, <<>>))
    /\ UNCHANGED <<budget, adapters, nextUri, conns, files, vector_store,
                   conversation_history, opened, chat_history,
                   materials_processed, parked, ret, stats>>

setup_after_connect ==
    /\ Running("_setup_collection", "after_connect")
    /\ IF ret.kind = "val"
       THEN stack' = Goto("has_collection") /\ ret' = ret
       ELSE stack' = Pop /\ ret' = ret
    /\ UNCHANGED <<budget, adapters, nextUri, conns, files, vector_store,
                   conversation_history, opened, chat_history,
                   materials_processed, parked, stats>>

\* utility.has_collection(name, using=alias)
setup_has_collection ==
    /\ Running("_setup_collection", "has_collection")
    /\ LET a == Top.self IN
       \E o \in EngineOutcomes(a, TRUE) :
         /\ stats' = Observe(stats, "has_collection", o)
         /\ budget' = Spend(o, Forced(a, TRUE))
         /\ IF o = "ok"
            THEN /\ stack' = Goto(IF Db(a).exists THEN "get" ELSE "create")
                 /\ ret' = ret
            ELSE /\ stack' = Pop
                 /\ ret' = Exc(o)
    /\ UNCHANGED <<conns, adapters, nextUri, files, vector_store, conversation_history, opened, chat_history,
                   materials_processed, parked>>

\* self.collection = Collection(name, schema, using=alias)
setup_create ==
    /\ Running("_setup_collection", "create")
    /\ LET a == Top.self IN
       \E o \in EngineOutcomes(a, TRUE) :
         /\ stats' = Observe(stats, "create", o)
         /\ budget' = Spend(o, Forced(a, TRUE))
         /\ IF o = "ok"
            THEN /\ files' = [files EXCEPT ![conns[a]] =
                                [EmptyDb EXCEPT !.exists = TRUE, !.nextPk = Db(a).nextPk]]
                 /\ adapters' = [adapters EXCEPT ![a].collection = TRUE]
                 /\ stack' = Goto("create_index")
                 /\ ret' = ret
            ELSE /\ stack' = Pop
                 /\ ret' = Exc(o)
                 /\ UNCHANGED <<files, adapters>>
    /\ UNCHANGED <<conns, nextUri, vector_store, conversation_history, opened, chat_history,
                   materials_processed, parked>>

\* self.collection.create_index(field_name="embedding", ...)
setup_create_index ==
    /\ Running("_setup_collection", "create_index")
    /\ LET a == Top.self
           pre == conns[a] # NoConn /\ Db(a).exists
       IN
       \E o \in EngineOutcomes(a, pre) :
         /\ stats' = Observe(stats, "create_index", o)
         /\ budget' = Spend(o, Forced(a, pre))
         /\ IF o = "ok"
            THEN /\ files' = [files EXCEPT ![conns[a]].indexed = TRUE]
                 /\ stack' = Goto("load")
                 /\ ret' = ret
            ELSE /\ stack' = Pop
                 /\ ret' = Exc(o)
                 /\ UNCHANGED files
    /\ UNCHANGED <<conns, adapters, nextUri, vector_store, conversation_history, opened, chat_history,
                   materials_processed, parked>>

\* self.collection = Collection(name, using=alias)
setup_get ==
    /\ Running("_setup_collection", "get")
    /\ LET a == Top.self
           pre == conns[a] # NoConn /\ Db(a).exists
       IN
       \E o \in EngineOutcomes(a, pre) :
         /\ stats' = Observe(stats, "get", o)
         /\ budget' = Spend(o, Forced(a, pre))
         /\ IF o = "ok"
            THEN /\ adapters' = [adapters EXCEPT ![a].collection = TRUE]
                 /\ stack' = Goto("load")
                 /\ ret' = ret
            ELSE /\ stack' = Pop
                 /\ ret' = Exc(o)
                 /\ UNCHANGED adapters
    /\ UNCHANGED <<conns, nextUri, files, vector_store, conversation_history, opened, chat_history,
                   materials_processed, parked>>

\* self.collection.load()
setup_load ==
    /\ Running("_setup_collection", "load")
    /\ LET a == Top.self
           pre == conns[a] # NoConn /\ Db(a).exists /\ Db(a).indexed
       IN
       \E o \in EngineOutcomes(a, pre) :
         /\ stats' = Observe(stats, "load", o)
         /\ budget' = Spend(o, Forced(a, pre))
         /\ IF o = "ok"
            THEN /\ files' = [files EXCEPT ![conns[a]].loaded = TRUE]
                 /\ stack' = Pop
                 /\ ret' = None
            ELSE /\ stack' = Pop
                 /\ ret' = Exc(o)
                 /\ UNCHANGED files
    /\ UNCHANGED <<conns, adapters, nextUri, vector_store, conversation_history, opened, chat_history,
                   materials_processed, parked>>

(***************************************************************************)
(* StudyMaterialsStore.store_vectors                                       *)
(***************************************************************************)
\* json.dumps(m): the mapping serialised to a string
json_dumps(m) == <<"json">> \o m

RECURSIVE NewRows(_, _)
NewRows(batch, pk) ==
    IF batch = <<>> THEN <<>>
    ELSE <<[id |-> pk, text |-> Head(batch).text,
            metadata |-> json_dumps(Head(batch).meta),
            embedding |-> Head(batch).emb]>> \o NewRows(Tail(batch), pk + 1)

\* a mutation of primary_keys: the ids in reverse order
primary_keys_reversed(rs) == [i \in 1..Len(rs) |-> rs[Len(rs) + 1 - i].id]

\* insert_result.primary_keys
primary_keys(rs) == [i \in 1..Len(rs) |-> rs[i].id]

\* insert_result = self.collection.insert(entities)
store_insert ==
    /\ Running("store_vectors", "insert")
    /\ LET a == Top.self IN
       IF ~adapters[a].collection
       THEN \* no collection attribute: AttributeError
            /\ stack' = Pop
            /\ ret' = Exc("err")
            /\ stats' = Observe(stats, "insert", "err")
            /\ UNCHANGED <<files, budget>>
       ELSE LET pre == conns[a] # NoConn /\ Db(a).exists IN
            \E o \in EngineOutcomes(a, pre) :
              /\ stats' = Observe(stats, "insert", o)
              /\ budget' = Spend(o, Forced(a, pre))
              /\ IF o = "ok"
                 THEN LET rs == NewRows(Top.arg, Db(a).nextPk) IN
                      /\ files' = [files EXCEPT
                                     ![conns[a]].rows = @ \o rs,
                                     ![conns[a]].nextPk = @ + Len(rs)]
                      /\ stack' = [Goto("flush") EXCEPT
                                     ![Len(stack)].loc = primary_keys(rs)]
                      /\ ret' = ret
                 ELSE /\ UNCHANGED files
                      /\ IF o = "stale"
                         THEN /\ stack' = Call("after_connect",
                                               Frame("_connect", "attempt", a, <<>>))
                              /\ ret' = ret
                         ELSE /\ stack' = Pop
                              /\ ret' = Exc(o)
    /\ UNCHANGED <<conns, adapters, nextUri, vector_store, conversation_history, opened, chat_history,
                   materials_processed, parked>>

\* self.collection.flush(); return insert_result.primary_keys
store_flush ==
    /\ Running("store_vectors", "flush")
    /\ LET a == Top.self
           pre == conns[a] # NoConn /\ Db(a).exists
       IN
       \E o \in EngineOutcomes(a, pre) :
         /\ stats' = Observe(stats, "flush", o)
         /\ budget' = Spend(o, Forced(a, pre))
         /\ IF o = "ok"
            THEN /\ stack' = Pop
                 /\ ret' = Val(Top.loc)
            ELSE IF o = "stale"
                 THEN /\ stack' = Call("after_connect",
                                       Frame("_connect", "attempt", a, <<>>))
                      /\ ret' = ret
                 ELSE /\ stack' = Pop
                      /\ ret' = Exc(o)
    /\ UNCHANGED <<conns, adapters, nextUri, files, vector_store, conversation_history, opened, chat_history,
                   materials_processed, parked>>

\* the steps of "except ConnectionNotExistException" shared by store_vectors
\* and search_vectors: self._connect(); self._setup_collection(); return self.f(...)
recover_after_connect(fn) ==
    /\ Running(fn, "after_connect")
    /\ IF ret.kind = "val"
       THEN stack' = Call("after_setup",
                          Frame("_setup_collection", "has_connection", Top.self, <<>>))
       ELSE stack' = Pop
    /\ UNCHANGED <<budget, adapters, nextUri, conns, files, vector_store,
                   conversation_history, opened, chat_history,
                   materials_processed, parked, ret, stats>>

retry_frame(fn) ==
    [Frame(fn, IF fn = "store_vectors" THEN "insert" ELSE "search", Top.self, Top.arg)
        EXCEPT !.d = Top.d + 1]

\* the handler gives up after the collection is set up again
recover_after_setup_no_retry(fn) ==
    /\ Running(fn, "after_setup")
    /\ stack' = Pop
    /\ ret' = IF ret.kind = "val" THEN Exc("stale") ELSE ret
    /\ UNCHANGED <<budget, adapters, nextUri, conns, files, vector_store,
                   conversation_history, opened, chat_history,
                   materials_processed, parked, stats>>

recover_after_setup(fn) ==
    /\ Running(fn, "after_setup")
    /\ IF ret.kind = "val"
       THEN /\ stack' = Call("after_retry", retry_frame(fn))
            /\ stats' = Bump(stats, IF fn = "store_vectors"
                                    THEN "store_try" ELSE "search_try")
       ELSE /\ stack' = Pop
            /\ UNCHANGED stats
    /\ UNCHANGED <<budget, adapters, nextUri, conns, files, vector_store,
                   conversation_history, opened, chat_history,
                   materials_processed, parked, ret>>

recover_after_retry(fn) ==
    /\ Running(fn, "after_retry")
    /\ stack' = Pop
    /\ UNCHANGED <<budget, adapters, nextUri, conns, files, vector_store,
                   conversation_history, opened, chat_history,
                   materials_processed, parked, ret, stats>>

store_after_connect == recover_after_connect("store_vectors")
store_after_setup == recover_after_setup("store_vectors")
store_after_retry == recover_after_retry("store_vectors")

(***************************************************************************)
(* StudyMaterialsStore.search_vectors                                      *)
(***************************************************************************)
\* squared Euclidean distance (metric_type L2) of one-dimensional vectors
Distance(q, e) == (q - e) * (q - e)

Closer(q, r1, r2) ==
    \/ Distance(q, r1.embedding) < Distance(q, r2.embedding)
    \/ Distance(q, r1.embedding) = Distance(q, r2.embedding) /\ r1.id <= r2.id

RECURSIVE Ranked(_, _)
Ranked(q, rs) ==
    IF rs = {} THEN <<>>
    ELSE LET best == CHOOSE r \in rs : \A r2 \in rs : Closer(q, r, r2)
         IN  <<best>> \o Ranked(q, rs \ {best})

Hit(q, r) == [id |-> r.id, text |-> r.text, metadata |-> r.metadata,
              distance |-> Distance(q, r.embedding)]

\* results[0] of collection.search(data=[q], limit=top_k), as the returned dicts
search_hits(rows, q, top_k) ==
    LET ranked == Ranked(q, {rows[i] : i \in 1..Len(rows)})
        n == IF Len(ranked) < top_k THEN Len(ranked) ELSE top_k
    IN  [i \in 1..n |-> Hit(q, ranked[i])]

search_search ==
    /\ Running("search_vectors", "search")
    /\ LET a == Top.self IN
       IF ~adapters[a].collection
       THEN /\ stack' = Pop
            /\ ret' = Exc("err")
            /\ stats' = Observe(stats, "search", "err")
            /\ UNCHANGED budget
       ELSE LET pre == conns[a] # NoConn /\ Db(a).exists /\ Db(a).loaded IN
            \E o \in EngineOutcomes(a, pre) :
              /\ stats' = Observe(stats, "search", o)
              /\ budget' = Spend(o, Forced(a, pre))
              /\ IF o = "ok"
                 THEN /\ stack' = Pop
                      /\ ret' = Val(search_hits(Db(a).rows, Top.arg.q, Top.arg.top_k))
                 ELSE IF o = "stale"
                      THEN /\ stack' = Call("after_connect",
                                            Frame("_connect", "attempt", a, <<>>))
                           /\ ret' = ret
                      ELSE /\ stack' = Pop
                           /\ ret' = Exc(o)
    /\ UNCHANGED <<conns, adapters, nextUri, files, vector_store, conversation_history, opened, chat_history,
                   materials_processed, parked>>

search_after_connect == recover_after_connect("search_vectors")
search_after_setup == recover_after_setup("search_vectors")
search_after_retry == recover_after_retry("search_vectors")

(***************************************************************************)
(* StudyMaterialsStore.drop                                                *)
(***************************************************************************)
\* if utility.has_collection(name, using=alias):
drop_has_collection ==
    /\ Running("drop", "has_collection")
    /\ LET a == Top.self IN
       \E o \in EngineOutcomes(a, TRUE) :
         /\ stats' = Observe(stats, "has_collection", o)
         /\ budget' = Spend(o, Forced(a, TRUE))
         /\ IF o = "ok"
            THEN IF Db(a).exists
                 THEN stack' = Goto("drop_collection") /\ ret' = ret
                 ELSE stack' = Pop /\ ret' = None
            ELSE stack' = Pop /\ ret' = Exc(o)
    /\ UNCHANGED <<conns, adapters, nextUri, files, vector_store, conversation_history, opened, chat_history,
                   materials_processed, parked>>

\* utility.drop_collection(name, using=alias); self._connect()
drop_drop_collection ==
    /\ Running("drop", "drop_collection")
    /\ LET a == Top.self
           pre == conns[a] # NoConn /\ Db(a).exists
       IN
       \E o \in EngineOutcomes(a, pre) :
         /\ stats' = Observe(stats, "drop_collection", o)
         /\ budget' = Spend(o, Forced(a, pre))
         /\ IF o = "ok"
            THEN /\ files' = [files EXCEPT ![conns[a]] =
                                [EmptyDb EXCEPT !.nextPk = Db(a).nextPk]]
                 /\ stack' = Call("after_connect", Frame("_connect", "attempt", a, <<>>))
                 /\ ret' = ret
            ELSE /\ stack' = Pop
                 /\ ret' = Exc(o)
                 /\ UNCHANGED files
    /\ UNCHANGED <<conns, adapters, nextUri, vector_store, conversation_history, opened, chat_history,
                   materials_processed, parked>>

\* a mutation of drop_after_connect: the collection is not set up again
drop_after_connect_only ==
    /\ Running("drop", "after_connect")
    /\ stack' = Pop
    /\ UNCHANGED <<budget, adapters, nextUri, conns, files, vector_store,
                   conversation_history, opened, chat_history,
                   materials_processed, parked, ret, stats>>

\* self._setup_collection()
drop_after_connect ==
    /\ Running("drop", "after_connect")
    /\ IF ret.kind = "val"
       THEN stack' = Call("after_setup",
                          Frame("_setup_collection", "has_connection", Top.self, <<>>))
       ELSE stack' = Pop
    /\ UNCHANGED <<budget, adapters, nextUri, conns, files, vector_store,
                   conversation_history, opened, chat_history,
                   materials_processed, parked, ret, stats>>

drop_after_setup ==
    /\ Running("drop", "after_setup")
    /\ stack' = Pop
    /\ UNCHANGED <<budget, adapters, nextUri, conns, files, vector_store,
                   conversation_history, opened, chat_history,
                   materials_processed, parked, ret, stats>>

(***************************************************************************)
(* StudyMaterialsStore.__init__                                            *)
(***************************************************************************)
NoUri == <<>>

\* cleanup_old_dbs removes database files older than 24 hours; no file of a
\* modelled session reaches that age
cleanup_old_dbs(f) == f

\* the fields are set, then self._connect()
init_begin ==
    /\ Running("__init__", "begin")
    /\ LET a == Len(adapters) + 1
           generated == Top.arg = NoUri
           uri == IF generated THEN workspace_tmp_uri(nextUri + 1) ELSE Top.arg
       IN  /\ adapters' = Append(adapters, [uri |-> uri, collection |-> FALSE])
           /\ nextUri' = IF generated THEN nextUri + 1 ELSE nextUri
           /\ conns' = Append(conns, NoConn)
           /\ files' = cleanup_old_dbs(files)
           /\ stack' = Append([stack EXCEPT ![Len(stack)].pc = "after_connect",
                                            ![Len(stack)].self = a],
                              Frame("_connect", "attempt", a, <<>>))
           /\ stats' = Bump(stats, "init")
    /\ UNCHANGED <<budget, vector_store, conversation_history, opened, chat_history,
                   materials_processed, parked, ret>>

\* self._setup_collection()
init_after_connect ==
    /\ Running("__init__", "after_connect")
    /\ IF ret.kind = "val"
       THEN stack' = Call("after_setup",
                          Frame("_setup_collection", "has_connection", Top.self, <<>>))
       ELSE stack' = Pop
    /\ UNCHANGED <<budget, adapters, nextUri, conns, files, vector_store,
                   conversation_history, opened, chat_history,
                   materials_processed, parked, ret, stats>>

init_after_setup ==
    /\ Running("__init__", "after_setup")
    /\ stack' = Pop
    /\ ret' = IF ret.kind = "val" THEN Val(Top.self) ELSE ret
    /\ UNCHANGED <<budget, adapters, nextUri, conns, files, vector_store,
                   conversation_history, opened, chat_history,
                   materials_processed, parked, stats>>

(***************************************************************************)
(* StudyAssistant.setup_vector_store                                       *)
(***************************************************************************)
\* a mutation of svs_begin: the new adapter opens the location of the old one
svs_begin_same_uri ==
    /\ Running("setup_vector_store", "begin")
    /\ nextUri' = nextUri + 1
    /\ stack' = Call("first", Frame("__init__", "begin", 0, adapters[vector_store].uri))
    /\ UNCHANGED <<budget, adapters, conns, files, vector_store, conversation_history,
                   opened, chat_history, materials_processed, parked, ret, stats>>

\* try: self.vector_store = StudyMaterialsStore(uri=f"tmp/sa_...")
svs_begin ==
    /\ Running("setup_vector_store", "begin")
    /\ nextUri' = nextUri + 1
    /\ stack' = Call("first", Frame("__init__", "begin", 0, relative_tmp_uri(nextUri + 1)))
    /\ UNCHANGED <<budget, adapters, conns, files, vector_store, conversation_history,
                   opened, chat_history,
                   materials_processed, parked, ret, stats>>

\* except Exception: self.vector_store = StudyMaterialsStore(uri=new_uri)
svs_first ==
    /\ Running("setup_vector_store", "first")
    /\ IF ret.kind = "val"
       THEN /\ vector_store' = ret.val
            /\ stack' = Pop
            /\ ret' = None
            /\ UNCHANGED nextUri
       ELSE /\ nextUri' = nextUri + 1
            /\ stack' = Call("second",
                             Frame("__init__", "begin", 0, relative_tmp_uri(nextUri + 1)))
            /\ UNCHANGED <<vector_store, ret>>
    /\ UNCHANGED <<budget, adapters, conns, files, conversation_history, opened, chat_history,
                   materials_processed, parked, stats>>

svs_second ==
    /\ Running("setup_vector_store", "second")
    /\ IF ret.kind = "val"
       THEN vector_store' = ret.val /\ ret' = None
       ELSE UNCHANGED <<vector_store, ret>>
    /\ stack' = Pop
    /\ UNCHANGED <<budget, adapters, nextUri, conns, files, conversation_history,
                   opened, chat_history,
                   materials_processed, parked, stats>>

(***************************************************************************)
(* StudyAssistant.get_embedding, store_material, search_materials          *)
(***************************************************************************)
\* texts are sequences of characters
alpha == <<"a">>
beta == <<"b">>

Texts == {alpha, beta}

\* the vector the embedding service returns for a text
get_embedding(text) == IF text = alpha THEN 0 ELSE 1

\* a non-stale failure reached the function the caller invoked
SawErr(s, k) ==
    IF k = "err" /\ Top.fn = s.op THEN [s EXCEPT !.sawErr = TRUE] ELSE s

store_call(fr) ==
    Frame("store_vectors", "insert", vector_store,
          <<[text |-> fr.arg.text, emb |-> get_embedding(fr.arg.text),
             meta |-> fr.arg.meta]>>)

search_call(fr) ==
    Frame("search_vectors", "search", vector_store,
          [q |-> get_embedding(fr.arg.text), top_k |-> fr.arg.top_k])

vector_call(fn, fr) == IF fn = "store_material" THEN store_call(fr) ELSE search_call(fr)
vector_try(fn) == IF fn = "store_material" THEN "store_try" ELSE "search_try"
reinit_event(fn) == IF fn = "store_material" THEN "reinit_sm" ELSE "reinit_srm"
vector_result(fn, v) == IF fn = "store_material" THEN v[1] ELSE v

\* try: embedding = self.get_embedding(text); self.vector_store.<call>(...)
material_embed(fn) ==
    /\ Running(fn, "embed")
    /\ \E o \in ServiceOutcomes :
         /\ budget' = Spend(o, "ok")
         /\ IF o = "ok"
            THEN /\ stack' = Call("after_call", vector_call(fn, Top))
                 /\ stats' = Bump(Bump(stats, "embed"), vector_try(fn))
                 /\ ret' = ret
            ELSE /\ stack' = Pop
                 /\ ret' = Exc("err")
                 /\ stats' = SawErr(Bump(Observe(stats, "embed", o), "embed"), "err")
    /\ UNCHANGED <<adapters, nextUri, conns, files, vector_store,
                   conversation_history, opened, chat_history,
                   materials_processed, parked>>

\* except ConnectionNotExistException: self.setup_vector_store()
\* except Exception: raise
material_after_call(fn) ==
    /\ Running(fn, "after_call")
    /\ IF ret.kind = "val"
       THEN /\ stack' = Pop
            /\ ret' = Val(vector_result(fn, ret.val))
            /\ UNCHANGED stats
       ELSE IF ret.kind = "stale"
            THEN /\ stack' = Call("after_reinit",
                                  Frame("setup_vector_store", "begin", 0, <<>>))
                 /\ stats' = Bump(stats, reinit_event(fn))
                 /\ ret' = ret
            ELSE /\ stack' = Pop
                 /\ ret' = ret
                 /\ stats' = SawErr(stats, "err")
    /\ UNCHANGED <<budget, adapters, nextUri, conns, files, vector_store,
                   conversation_history, opened, chat_history,
                   materials_processed, parked>>

material_after_reinit(fn) ==
    /\ Running(fn, "after_reinit")
    /\ IF ret.kind = "val" THEN stack' = Goto("retry_embed") ELSE stack' = Pop
    /\ stats' = SawErr(stats, ret.kind)
    /\ UNCHANGED <<budget, adapters, nextUri, conns, files, vector_store,
                   conversation_history, opened, chat_history,
                   materials_processed, parked, ret>>

\* in the handler: embedding = self.get_embedding(text); self.vector_store.<call>(...)
material_retry_embed(fn) ==
    /\ Running(fn, "retry_embed")
    /\ \E o \in ServiceOutcomes :
         /\ budget' = Spend(o, "ok")
         /\ IF o = "ok"
            THEN /\ stack' = Call("after_retry", vector_call(fn, Top))
                 /\ stats' = Bump(Bump(stats, "embed"), vector_try(fn))
                 /\ ret' = ret
            ELSE /\ stack' = Pop
                 /\ ret' = Exc("err")
                 /\ stats' = SawErr(Bump(Observe(stats, "embed", o), "embed"), "err")
    /\ UNCHANGED <<adapters, nextUri, conns, files, vector_store,
                   conversation_history, opened, chat_history,
                   materials_processed, parked>>

\* a mutation of material_after_retry: a stale connection of the retry is
\* handled like one of the first attempt
material_after_retry_again(fn) ==
    /\ Running(fn, "after_retry")
    /\ IF ret.kind = "stale"
       THEN /\ stack' = Call("after_reinit",
                             Frame("setup_vector_store", "begin", 0, <<>>))
            /\ stats' = Bump(stats, reinit_event(fn))
            /\ ret' = ret
       ELSE /\ stack' = Pop
            /\ ret' = IF ret.kind = "val" THEN Val(vector_result(fn, ret.val)) ELSE ret
            /\ stats' = SawErr(stats, ret.kind)
    /\ UNCHANGED <<budget, adapters, nextUri, conns, files, vector_store,
                   conversation_history, opened, chat_history,
                   materials_processed, parked>>

material_after_retry(fn) ==
    /\ Running(fn, "after_retry")
    /\ stack' = Pop
    /\ ret' = IF ret.kind = "val" THEN Val(vector_result(fn, ret.val)) ELSE ret
    /\ stats' = SawErr(stats, ret.kind)
    /\ UNCHANGED <<budget, adapters, nextUri, conns, files, vector_store,
                   conversation_history, opened, chat_history,
                   materials_processed, parked>>

sm_embed == material_embed("store_material")
sm_after_call == material_after_call("store_material")
sm_after_reinit == material_after_reinit("store_material")
sm_retry_embed == material_retry_embed("store_material")
sm_after_retry == material_after_retry("store_material")

srm_embed == material_embed("search_materials")
srm_after_call == material_after_call("search_materials")
srm_after_reinit == material_after_reinit("search_materials")
srm_retry_embed == material_retry_embed("search_materials")
srm_after_retry == material_after_retry("search_materials")

(***************************************************************************)
(* StudyAssistant.generate_response                                        *)
(***************************************************************************)
history_limit == 5

\* a mutation of history_window: the oldest turns instead of the latest
history_window_oldest(h) ==
    IF Len(h) <= history_limit THEN h ELSE SubSeq(h, 1, history_limit)

\* self.conversation_history[-5:]
history_window(h) ==
    IF Len(h) <= history_limit THEN h
    ELSE SubSeq(h, Len(h) - history_limit + 1, Len(h))

\* [item["text"] for item in relevant_materials]
context_of(hits) == [i \in 1..Len(hits) |-> hits[i].text]

Reply == "reply"
ErrorString == "Error:e"

\* a mutation of append_turn: the turn is not recorded
append_turn_dropped(h, query, reply) == h

\* self.conversation_history.append({"user": query, "assistant": reply})
append_turn(h, query, reply) ==
    Append(h, [user |-> query, assistant |-> reply])

\* relevant_materials = self.search_materials(query)
gr_begin ==
    /\ Running("generate_response", "begin")
    /\ stack' = Call("after_search",
                     Frame("search_materials", "embed", 0,
                           [text |-> Top.arg, top_k |-> default_top_k]))
    /\ UNCHANGED <<budget, adapters, nextUri, conns, files, vector_store,
                   conversation_history, opened, chat_history,
                   materials_processed, parked, ret, stats>>

\* except ConnectionNotExistException: self.setup_vector_store()
\* except Exception as e: return f"Error: {str(e)}"
gr_after_search ==
    /\ Running("generate_response", "after_search")
    /\ IF ret.kind = "val"
       THEN /\ stack' = [Goto("llm") EXCEPT ![Len(stack)].loc = context_of(ret.val)]
            /\ UNCHANGED <<ret, stats>>
       ELSE IF ret.kind = "stale"
            THEN /\ stack' = Call("after_reinit",
                                  Frame("setup_vector_store", "begin", 0, <<>>))
                 /\ stats' = Bump(stats, "reinit_gr")
                 /\ ret' = ret
            ELSE /\ stack' = Pop
                 /\ ret' = Val(ErrorString)
                 /\ stats' = SawErr(stats, "err")
    /\ UNCHANGED <<budget, adapters, nextUri, conns, files, vector_store,
                   conversation_history, opened, chat_history,
                   materials_processed, parked>>

\* the chat completion, then self.conversation_history.append(...)
gr_llm ==
    /\ Running("generate_response", "llm")
    /\ \E o \in ServiceOutcomes :
         LET sent == [stats EXCEPT
                        !.prompt = [context |-> Top.loc,
                                    history |-> history_window(conversation_history),
                                    user |-> Top.arg]]
         IN
         /\ budget' = Spend(o, "ok")
         /\ IF o = "ok"
            THEN /\ conversation_history' =
                        append_turn(conversation_history, Top.arg, Reply)
                 /\ stats' = Bump(sent, "llm")
                 /\ stack' = Pop
                 /\ ret' = Val(Reply)
            ELSE /\ stack' = Pop
                 /\ ret' = Val(ErrorString)
                 /\ stats' = SawErr(Observe(sent, "llm", o), "err")
                 /\ UNCHANGED conversation_history
    /\ UNCHANGED <<adapters, nextUri, conns, files, vector_store, opened,
                   chat_history,
                   materials_processed, parked>>

\* in the handler: return self.generate_response(query)
gr_after_reinit ==
    /\ Running("generate_response", "after_reinit")
    /\ IF ret.kind = "val"
       THEN stack' = Call("after_retry",
                          [Frame("generate_response", "begin", 0, Top.arg)
                              EXCEPT !.d = Top.d + 1])
       ELSE stack' = Pop
    /\ UNCHANGED <<budget, adapters, nextUri, conns, files, vector_store,
                   conversation_history, opened, chat_history,
                   materials_processed, parked, ret, stats>>

gr_after_retry ==
    /\ Running("generate_response", "after_retry")
    /\ stack' = Pop
    /\ UNCHANGED <<budget, adapters, nextUri, conns, files, vector_store,
                   conversation_history, opened, chat_history,
                   materials_processed, parked, ret, stats>>

(***************************************************************************)
(* StudyAssistant.summarize_material, explain_concept,                     *)
(* generate_flashcards, generate_quiz                                      *)
(***************************************************************************)
\* an LLM reply as a sequence of pieces: "F" a ``` fence, "j" the word json,
\* "J" the text of a JSON array, "G" any text that is not JSON
Contents == { <<"J">>, <<"G">>, <<"F", "j", "J", "F">>, <<"F", "J", "F">>,
              <<"F", "j", "G", "F">>, <<"G", "F", "j", "J", "F", "G">> }

FirstAt(c, p) ==
    IF Contains(c, p)
    THEN CHOOSE i \in 1..Len(c) :
            /\ i + Len(p) - 1 <= Len(c)
            /\ SubSeq(c, i, i + Len(p) - 1) = p
            /\ \A k \in 1..(i - 1) : SubSeq(c, k, k + Len(p) - 1) # p
    ELSE 0

\* c.split(p)[1].split("```")[0]
between(c, p) ==
    LET rest == SubSeq(c, FirstAt(c, p) + Len(p), Len(c))
        stop == FirstAt(rest, <<"F">>)
    IN  IF stop = 0 THEN rest ELSE SubSeq(rest, 1, stop - 1)

\* a mutation of strip_fence: the reply is parsed as it came
strip_fence_kept(c) == c

strip_fence(c) ==
    IF Contains(c, <<"F", "j">>) THEN between(c, <<"F", "j">>)
    ELSE IF Contains(c, <<"F">>) THEN between(c, <<"F">>)
    ELSE c

\* json.loads succeeds
is_json(c) == c = <<"J">>

ParsePlaceholder(fn) ==
    IF fn = "generate_flashcards"
    THEN <<[question |-> "Error", answer |-> "Could not generate flashcards."]>>
    ELSE <<[question |-> "Error", options |-> <<"Error">>, correct_index |-> 0,
            explanation |-> "Could not generate quiz."]>>

ErrorPlaceholder(fn) ==
    IF fn = "generate_flashcards"
    THEN <<[question |-> "Error", answer |-> ErrorString]>>
    ELSE <<[question |-> "Error", options |-> <<"Error">>, correct_index |-> 0,
            explanation |-> ErrorString]>>

\* a mutation of error_result: the except clause re-raises
error_result_raised(fn) == Exc("err")

\* what the except clause of a generation function returns
error_result(fn) ==
    IF fn \in {"generate_flashcards", "generate_quiz"}
    THEN Val(ErrorPlaceholder(fn))
    ELSE Val(ErrorString)

llm_result(fn, content) ==
    IF fn \in {"generate_flashcards", "generate_quiz"}
    THEN IF is_json(strip_fence(content))
         THEN Val(<<[parsed |-> "J"]>>)
         ELSE Val(ParsePlaceholder(fn))
    ELSE Val(Reply)

\* relevant_materials = self.search_materials(topic)
gen_begin(fn) ==
    /\ Running(fn, "begin")
    /\ stack' = Call("after_search",
                     Frame("search_materials", "embed", 0,
                           [text |-> Top.arg, top_k |-> default_top_k]))
    /\ UNCHANGED <<budget, adapters, nextUri, conns, files, vector_store,
                   conversation_history, opened, chat_history,
                   materials_processed, parked, ret, stats>>

\* except Exception: the error result of the function
gen_after_search(fn) ==
    /\ Running(fn, "after_search")
    /\ IF ret.kind = "val"
       THEN /\ stack' = [Goto("llm") EXCEPT ![Len(stack)].loc = context_of(ret.val)]
            /\ UNCHANGED <<ret, stats>>
       ELSE /\ stack' = Pop
            /\ ret' = error_result(fn)
            /\ stats' = SawErr(stats, ret.kind)
    /\ UNCHANGED <<budget, adapters, nextUri, conns, files, vector_store,
                   conversation_history, opened, chat_history,
                   materials_processed, parked>>

\* the chat completion and the handling of its reply
gen_llm(fn) ==
    /\ Running(fn, "llm")
    /\ \E o \in ServiceOutcomes :
         /\ budget' = Spend(o, "ok")
         /\ IF o = "ok"
            THEN \E content \in Contents :
                   /\ stack' = Pop
                   /\ ret' = llm_result(fn, content)
                   /\ stats' = [Bump(stats, "llm") EXCEPT !.content = content]
            ELSE /\ stack' = Pop
                 /\ ret' = error_result(fn)
                 /\ stats' = SawErr(Observe(stats, "llm", o), "err")
    /\ UNCHANGED <<adapters, nextUri, conns, files, vector_store,
                   conversation_history, opened, chat_history,
                   materials_processed, parked>>

summarize_llm == gen_llm("summarize_material")

explain_begin == gen_begin("explain_concept")
explain_after_search == gen_after_search("explain_concept")
explain_llm == gen_llm("explain_concept")

flashcards_begin == gen_begin("generate_flashcards")
flashcards_after_search == gen_after_search("generate_flashcards")
flashcards_llm == gen_llm("generate_flashcards")

quiz_begin == gen_begin("generate_quiz")
quiz_after_search == gen_after_search("generate_quiz")
quiz_llm == gen_llm("generate_quiz")

(***************************************************************************)
(* chunk_text (app.py).  A text is a sequence of characters, "nl" the      *)
(* newline; an index is the 0-based index of the code.                     *)
(***************************************************************************)
\* for char in ["\n\n", ".", "?", "!"]
Boundaries == << <<"nl", "nl">>, <<".">>, <<"?">>, <<"!">> >>

\* text.rfind(char, start, end): the highest index in start..end at which char
\* lies within text[start:end], -1 if there is none
rfind(text, char, start, end) ==
    LET found == {i \in start..(end - Len(char)) :
                     SubSeq(text, i + 1, i + Len(char)) = char}
    IN  IF found = {} THEN -1
        ELSE CHOOSE i \in found : \A k \in found : k <= i

\* a mutation of window_end: the window is not capped by chunk_size
window_end_whole(start, chunk_size, text_length) == text_length

\* end = min(start + chunk_size, text_length)
window_end(start, chunk_size, text_length) ==
    IF start + chunk_size < text_length THEN start + chunk_size ELSE text_length

\* the for loop: the first kind of boundary found in the window ends the chunk
RECURSIVE boundary_end(_, _, _, _)
boundary_end(text, start, end, chars) ==
    IF chars = <<>> THEN end
    ELSE LET pos == rfind(text, Head(chars), start, end)
         IN  IF pos # -1 THEN pos + 1
             ELSE boundary_end(text, start, end, Tail(chars))

chunk_end(text, start, chunk_size) ==
    LET end == window_end(start, chunk_size, Len(text))
    IN  IF end < Len(text) THEN boundary_end(text, start, end, Boundaries)
        ELSE end

\* a mutation of next_start: the overlap is always taken
next_start_back(start, end, overlap) == end - overlap

\* start = end - overlap if end - overlap > start else end
next_start(start, end, overlap) ==
    IF end - overlap > start THEN end - overlap ELSE end

\* one iteration of the while loop; the frame keeps start in n and, with every
\* chunk appended, the indices it was sliced at
chunk_step ==
    /\ Running("chunk_text", "loop")
    /\ LET text == Top.arg.text
           start == Top.n
           end == chunk_end(text, start, Top.arg.chunk_size)
       IN  /\ start < Len(text)
           /\ stack' = [stack EXCEPT
                          ![Len(stack)].loc =
                              Append(@, [s |-> start, e |-> end,
                                         chunk |-> SubSeq(text, start + 1, end)]),
                          ![Len(stack)].n = next_start(start, end, Top.arg.overlap)]
    /\ UNCHANGED <<budget, adapters, nextUri, conns, files, vector_store,
                   conversation_history, opened, chat_history,
                   materials_processed, parked, ret, stats>>

\* if not text: return [] ... return chunks
chunk_return ==
    /\ Running("chunk_text", "loop")
    /\ Top.n >= Len(Top.arg.text)
    /\ stack' = Pop
    /\ ret' = Val(IF Top.arg.text = <<>> THEN <<>>
                  ELSE [i \in 1..Len(Top.loc) |-> Top.loc[i].chunk])
    /\ UNCHANGED <<budget, adapters, nextUri, conns, files, vector_store,
                   conversation_history, opened, chat_history,
                   materials_processed, parked, stats>>

\* chunk_text as a whole: the chunks the loop appends, in order
RECURSIVE chunks_from(_, _, _, _)
chunks_from(text, start, chunk_size, overlap) ==
    IF start >= Len(text) THEN <<>>
    ELSE LET end == chunk_end(text, start, chunk_size)
         IN  <<SubSeq(text, start + 1, end)>> \o
             chunks_from(text, next_start(start, end, overlap), chunk_size, overlap)

chunk_text(text, chunk_size, overlap) ==
    IF text = <<>> THEN <<>> ELSE chunks_from(text, 0, chunk_size, overlap)

(***************************************************************************)
(* The upload loop of the sidebar (app.py).  An uploaded file has a name,  *)
(* a size and pages of text, or cannot be read as a PDF.                   *)
(***************************************************************************)
\* f"{pdf_file.name}_{pdf_file.size}": the size is a number, so the name and
\* the size determine the string and the other way round
file_id(f) == <<f.name, f.size>>

\* text += page.extract_text() + "\n\n", for every page
RECURSIVE extract_text_from_pdf(_)
extract_text_from_pdf(pages) ==
    IF pages = <<>> THEN <<>>
    ELSE Head(pages) \o <<"nl", "nl">> \o extract_text_from_pdf(Tail(pages))

\* a page of default_chunk_size characters without a sentence end
LongPage == [i \in 1..default_chunk_size |-> "a"]

UnreadableFile == [name |-> "bad", size |-> 1, readable |-> FALSE, pages |-> <<>>]
ShortFile == [name |-> "short", size |-> 2, readable |-> TRUE,
              pages |-> << <<"a", ".">> >>]
LongFile == [name |-> "long", size |-> 3, readable |-> TRUE,
             pages |-> <<LongPage>>]

KnownFiles == {UnreadableFile, ShortFile, LongFile}

\* chunks = chunk_text(text), for the text of every file
FileChunks ==
    [f \in KnownFiles |->
        chunk_text(extract_text_from_pdf(f.pages), default_chunk_size,
                   default_overlap)]

file_chunks(f) == FileChunks[f]

\* st.error, st.success or st.info about a file
Report(f, kind) == [file |-> file_id(f), kind |-> kind]

Reported(s, f, kind) == [s EXCEPT !.content = Append(@, Report(f, kind))]

\* for pdf_file in uploaded_files: if file_id not in materials_processed:
\* try: text = extract_text_from_pdf(pdf_file); chunks = chunk_text(text)
upload_file ==
    /\ Running("upload", "file")
    /\ IF Top.n = Len(Top.arg)
       THEN /\ stack' = Pop
            /\ ret' = None
            /\ UNCHANGED stats
       ELSE LET f == Top.arg[Top.n + 1] IN
            /\ ret' = ret
            /\ IF file_id(f) \in DOMAIN materials_processed
               THEN /\ stats' = Reported(stats, f, "info")
                    /\ stack' = [stack EXCEPT ![Len(stack)].n = @ + 1]
               ELSE IF ~f.readable
                    THEN /\ stats' = Reported(stats, f, "error")
                         /\ stack' = [stack EXCEPT ![Len(stack)].n = @ + 1]
                    ELSE /\ stack' = [Goto("store") EXCEPT
                                        ![Len(stack)].loc = file_chunks(f),
                                        ![Len(stack)].rc = 0]
                         /\ UNCHANGED stats
    /\ UNCHANGED <<budget, adapters, nextUri, conns, files, vector_store,
                   conversation_history, opened, chat_history,
                   materials_processed, parked>>

\* for i, chunk in enumerate(chunks): assistant.store_material(chunk, metadata)
\* and, after the last chunk, materials_processed[file_id] = {...}; st.success
upload_store ==
    /\ Running("upload", "store")
    /\ LET f == Top.arg[Top.n + 1]
           chunks == Top.loc
           i == Top.rc
       IN  IF i < Len(chunks)
           THEN /\ stack' = Call("after_store",
                                 Frame("store_material", "embed", 0,
                                       [text |-> chunks[i + 1],
                                        meta |-> <<f.name, i, Len(chunks)>>]))
                /\ UNCHANGED <<materials_processed, stats>>
           ELSE /\ materials_processed' =
                      [k \in DOMAIN materials_processed \cup {file_id(f)} |->
                          IF k = file_id(f)
                          THEN [name |-> f.name, chunks |-> Len(chunks)]
                          ELSE materials_processed[k]]
                /\ stats' = Reported(stats, f, "success")
                /\ stack' = [Goto("file") EXCEPT ![Len(stack)].n = @ + 1]
    /\ UNCHANGED <<budget, adapters, nextUri, conns, files, vector_store,
                   conversation_history, opened, chat_history, parked, ret>>

\* a mutation of upload_after_store: the failure of a chunk ends the loop
upload_after_store_abort ==
    /\ Running("upload", "after_store")
    /\ IF ret.kind = "val"
       THEN /\ stack' = [Goto("store") EXCEPT ![Len(stack)].rc = @ + 1]
            /\ UNCHANGED stats
       ELSE /\ stack' = Pop
            /\ stats' = Reported(stats, Top.arg[Top.n + 1], "error")
    /\ ret' = None
    /\ UNCHANGED <<budget, adapters, nextUri, conns, files, vector_store,
                   conversation_history, opened, chat_history,
                   materials_processed, parked>>

\* the chunk is stored, or: except Exception as e: st.error(...), and the
\* loop goes on with the next file
upload_after_store ==
    /\ Running("upload", "after_store")
    /\ IF ret.kind = "val"
       THEN /\ stack' = [Goto("store") EXCEPT ![Len(stack)].rc = @ + 1]
            /\ UNCHANGED stats
       ELSE /\ stack' = [Goto("file") EXCEPT ![Len(stack)].n = @ + 1]
            /\ stats' = Reported(stats, Top.arg[Top.n + 1], "error")
    /\ ret' = None
    /\ UNCHANGED <<budget, adapters, nextUri, conns, files, vector_store,
                   conversation_history, opened, chat_history,
                   materials_processed, parked>>

(***************************************************************************)
(* The calls a user of the two classes makes.                              *)
(***************************************************************************)
Live == {vector_store, opened} \ {0}

Start(op, fr, s) ==
    /\ Idle
    /\ stats.op = "none"
    /\ budget.calls > 0
    /\ budget' = [budget EXCEPT !.calls = @ - 1]
    /\ stack' = <<fr>>
    /\ ret' = None
    /\ stats' = [s EXCEPT !.op = op, !.arg = fr.arg]
    /\ UNCHANGED <<adapters, nextUri, conns, files, vector_store,
                   conversation_history, opened, chat_history,
                   materials_processed, parked>>

Entry(text) == [text |-> text, emb |-> get_embedding(text), meta |-> <<>>]

Batches == {<<Entry(alpha)>>, <<Entry(beta), Entry(alpha)>>,
            <<Entry(alpha), Entry(alpha)>>}

call_open ==
    \E uri \in UserUris \cup {NoUri} :
        /\ opened = 0
        /\ Start("open", Frame("open", "begin", 0, uri), NoStats)

\* store = StudyMaterialsStore(uri=uri)
open_begin ==
    /\ Running("open", "begin")
    /\ stack' = Call("after_init", Frame("__init__", "begin", 0, Top.arg))
    /\ UNCHANGED <<budget, adapters, nextUri, conns, files, vector_store,
                   conversation_history, opened, chat_history,
                   materials_processed, parked, ret, stats>>

open_after_init ==
    /\ Running("open", "after_init")
    /\ opened' = IF ret.kind = "val" THEN ret.val ELSE opened
    /\ stack' = Pop
    /\ UNCHANGED <<budget, adapters, nextUri, conns, files, vector_store,
                   conversation_history, chat_history,
                   materials_processed, parked, ret, stats>>

call_store_vectors ==
    \E a \in Live, batch \in Batches :
        Start("store_vectors", Frame("store_vectors", "insert", a, batch),
                 Bump(NoStats, "store_try"))

call_search_vectors ==
    \E a \in Live, q \in {0, 1}, k \in {1, default_top_k} :
        Start("search_vectors",
              Frame("search_vectors", "search", a, [q |-> q, top_k |-> k]),
              Bump(NoStats, "search_try"))

call_drop ==
    \E a \in Live :
        Start("drop", Frame("drop", "has_collection", a, <<>>), NoStats)

call_store_material ==
    \E text \in Texts :
        Start("store_material",
                 Frame("store_material", "embed", 0, [text |-> text, meta |-> <<>>]),
                 NoStats)

call_search_materials ==
    \E text \in Texts, k \in {1, default_top_k} :
        Start("search_materials",
              Frame("search_materials", "embed", 0, [text |-> text, top_k |-> k]),
              NoStats)

call_generate_response ==
    \E query \in Texts :
        Start("generate_response",
              Frame("generate_response", "begin", 0, query), NoStats)

call_summarize_material ==
    \E text \in Texts :
        Start("summarize_material",
              Frame("summarize_material", "llm", 0, text), NoStats)

call_explain_concept ==
    \E text \in Texts :
        Start("explain_concept", Frame("explain_concept", "begin", 0, text), NoStats)

call_generate_flashcards ==
    \E text \in Texts :
        Start("generate_flashcards",
              Frame("generate_flashcards", "begin", 0, text), NoStats)

call_generate_quiz ==
    \E text \in Texts :
        Start("generate_quiz", Frame("generate_quiz", "begin", 0, text), NoStats)

\* the lists of files a user uploads
Uploads ==
    {<<f, g>> : f, g \in KnownFiles}

\* a run of the page with the uploaded files
call_upload ==
    \E uploaded_files \in Uploads :
        Start("upload", Frame("upload", "file", 0, uploaded_files), NoStats)

\* the caller takes the result of the call it made; the chat page records the
\* exchange when generate_response returned
finish ==
    /\ Idle
    /\ stats.op # "none"
    /\ stats' = NoStats
    /\ ret' = None
    /\ chat_history' =
          IF stats.op = "generate_response" /\ ret.kind = "val"
          THEN Append(chat_history, [user |-> stats.arg, assistant |-> ret.val])
          ELSE chat_history
    /\ UNCHANGED <<budget, adapters, nextUri, conns, files, vector_store,
                   conversation_history, opened, stack, materials_processed, parked>>

\* the scheduler lets the other caller run: the two callers share the
\* assistant, its adapters and the engine, and nothing else
yield ==
    /\ stack' = parked.stack
    /\ ret' = parked.ret
    /\ stats' = parked.stats
    /\ parked' = Parked(stack, ret, stats)
    /\ UNCHANGED <<budget, adapters, nextUri, conns, files, vector_store,
                   conversation_history, opened, chat_history,
                   materials_processed>>

(***************************************************************************)
(* The specification.                                                      *)
(***************************************************************************)
Budget(calls, stale, err, conn) ==
    [stale |-> stale, conn |-> conn, calls |-> calls, err |-> err]

ReadyDb == [EmptyDb EXCEPT !.exists = TRUE, !.indexed = TRUE, !.loaded = TRUE]

\* a database an earlier session left at a location
LeftDb == [exists |-> TRUE, indexed |-> TRUE, loaded |-> FALSE,
           rows |-> NewRows(<<Entry(alpha)>>, 1), nextPk |-> 2]

NoCall ==
    /\ stack = <<>>
    /\ ret = None
    /\ stats = NoStats
    /\ parked = NoParked
    /\ materials_processed = <<>>

\* no adapter exists yet
InitOpen ==
    /\ adapters = <<>>
    /\ nextUri = 0
    /\ conns = <<>>
    /\ \E old \in SUBSET {<<".", "/", "a">>} : files = [u \in old |-> LeftDb]
    /\ vector_store = 0
    /\ conversation_history = <<>>
    /\ chat_history = <<>>
    /\ opened = 0
    /\ NoCall
    /\ budget = Budget(OpenCalls, OpenStale, OpenErr, OpenConn)

\* a caller has opened an adapter at a location of its choice
Init ==
    /\ \E uri \in UserUris :
         /\ adapters = <<[uri |-> uri, collection |-> TRUE]>>
         /\ conns = <<uri>>
         /\ files = (uri :> ReadyDb)
    /\ nextUri = 0
    /\ vector_store = 0
    /\ conversation_history = <<>>
    /\ chat_history = <<>>
    /\ opened = 1
    /\ NoCall
    /\ budget = Budget(StoreCalls, StoreStale, StoreErr, 0)

InitUri == relative_tmp_uri(1)

\* StudyAssistant() has been constructed
Constructed ==
    /\ adapters = <<[uri |-> InitUri, collection |-> TRUE]>>
    /\ nextUri = 1
    /\ vector_store = 1
    /\ conversation_history = <<>>
    /\ chat_history = <<>>
    /\ opened = 0
    /\ NoCall

\* the registry may have lost the connection since the construction
MaybeLost == \E c \in {InitUri, NoConn} : conns = <<c>>

\* materials are stored and searched while connections are lost
InitMaterial ==
    /\ Constructed
    /\ MaybeLost
    /\ files = (InitUri :> ReadyDb)
    /\ budget = Budget(MaterialCalls, MaterialStale, MaterialErr, 0)

\* the application uses the assistant while no connection is lost
InitAssistant ==
    /\ Constructed
    /\ conns = <<InitUri>>
    /\ files = (InitUri :> ReadyDb)
    /\ budget = Budget(AssistantCalls, 0, AssistantErr, 0)

StoredRow == NewRows(<<Entry(alpha)>>, 1)

\* the assistant with no or one stored material
InitChat ==
    /\ Constructed
    /\ conns = <<InitUri>>
    /\ \E rs \in {<<>>, StoredRow} :
         files = (InitUri :> [ReadyDb EXCEPT !.rows = rs, !.nextPk = Len(rs) + 1])
    /\ budget = Budget(ChatCalls, 0, ChatErr, 0)

\* the assistant answers questions while connections are lost
InitRetry ==
    /\ Constructed
    /\ MaybeLost
    /\ files = (InitUri :> ReadyDb)
    /\ budget = Budget(RetryCalls, RetryStale, 0, 0)

CoreSteps ==
    \/ lose_connection
    \/ connect_attempt
    \/ setup_has_connection \/ setup_after_connect \/ setup_has_collection
    \/ setup_create \/ setup_create_index \/ setup_get \/ setup_load
    \/ finish

VectorSteps ==
    \/ store_insert \/ store_flush
    \/ store_after_connect \/ store_after_setup \/ store_after_retry
    \/ search_search
    \/ search_after_connect \/ search_after_setup \/ search_after_retry

InitSteps == init_begin \/ init_after_connect \/ init_after_setup

\* a caller opens an adapter
NextOpen ==
    \/ CoreSteps
    \/ InitSteps
    \/ call_open \/ open_begin \/ open_after_init

\* a caller uses the adapter it opened
Next ==
    \/ CoreSteps
    \/ VectorSteps
    \/ drop_has_collection \/ drop_drop_collection
    \/ drop_after_connect \/ drop_after_setup
    \/ call_store_vectors \/ call_search_vectors \/ call_drop

\* materials are stored and searched while connections are lost
NextMaterial ==
    \/ CoreSteps
    \/ VectorSteps
    \/ InitSteps
    \/ svs_begin \/ svs_first \/ svs_second
    \/ sm_embed \/ sm_after_call \/ sm_after_reinit \/ sm_retry_embed \/ sm_after_retry
    \/ srm_embed \/ srm_after_call \/ srm_after_reinit \/ srm_retry_embed
    \/ srm_after_retry
    \/ call_store_material \/ call_search_materials

\* the application uses the assistant while no connection is lost
NextAssistant ==
    \/ store_insert \/ store_flush
    \/ search_search
    \/ sm_embed \/ sm_after_call
    \/ srm_embed \/ srm_after_call
    \/ gr_begin \/ gr_after_search \/ gr_llm
    \/ summarize_llm
    \/ explain_begin \/ explain_after_search \/ explain_llm
    \/ flashcards_begin \/ flashcards_after_search \/ flashcards_llm
    \/ quiz_begin \/ quiz_after_search \/ quiz_llm
    \/ call_store_material \/ call_search_materials \/ call_generate_response
    \/ call_summarize_material \/ call_explain_concept
    \/ call_generate_flashcards \/ call_generate_quiz
    \/ finish

\* a chat with the assistant while no connection is lost
NextChat ==
    \/ call_generate_response
    \/ gr_begin \/ gr_after_search \/ gr_llm
    \/ srm_embed \/ srm_after_call
    \/ search_search
    \/ finish

\* a chat with the assistant while connections are lost
NextRetry ==
    \/ CoreSteps
    \/ InitSteps
    \/ svs_begin \/ svs_first \/ svs_second
    \/ search_search
    \/ search_after_connect \/ search_after_setup \/ search_after_retry
    \/ srm_embed \/ srm_after_call \/ srm_after_reinit \/ srm_retry_embed
    \/ srm_after_retry
    \/ gr_begin \/ gr_after_search \/ gr_llm \/ gr_after_reinit \/ gr_after_retry
    \/ call_generate_response

\* flashcards and quizzes are generated while connections are lost
NextGenerate ==
    \/ CoreSteps
    \/ InitSteps
    \/ svs_begin \/ svs_first \/ svs_second
    \/ search_search
    \/ search_after_connect \/ search_after_setup \/ search_after_retry
    \/ srm_embed \/ srm_after_call \/ srm_after_reinit \/ srm_retry_embed
    \/ srm_after_retry
    \/ flashcards_begin \/ flashcards_after_search \/ flashcards_llm
    \/ quiz_begin \/ quiz_after_search \/ quiz_llm
    \/ call_generate_flashcards \/ call_generate_quiz

\* two callers use one assistant; no connection is lost by the registry
InitRace ==
    /\ Constructed
    /\ conns = <<InitUri>>
    /\ files = (InitUri :> ReadyDb)
    /\ budget = Budget(RaceCalls, RaceWindows, 0, 0)

\* the construction of a new adapter, which no other caller knows yet, does
\* not fail here, and search_materials hands no stale connection on
NextRace ==
    \/ yield
    \/ connect_disconnect \/ connect_attempt
    \/ setup_has_connection \/ setup_after_connect \/ setup_has_collection
    \/ setup_create \/ setup_create_index \/ setup_get \/ setup_load
    \/ VectorSteps
    \/ InitSteps
    \/ svs_begin \/ svs_first
    \/ drop_has_collection \/ drop_drop_collection
    \/ drop_after_connect \/ drop_after_setup
    \/ sm_embed \/ sm_after_call \/ sm_after_reinit \/ sm_retry_embed \/ sm_after_retry
    \/ srm_embed \/ srm_after_call \/ srm_after_reinit \/ srm_retry_embed
    \/ srm_after_retry
    \/ gr_begin \/ gr_after_search \/ gr_llm
    \/ call_store_material \/ call_generate_response \/ call_drop
    \/ finish

\* the page runs with uploaded files while calls of the services can fail
InitUpload ==
    /\ Constructed
    /\ conns = <<InitUri>>
    /\ files = (InitUri :> ReadyDb)
    /\ budget = Budget(UploadCalls, 0, UploadErr, 0)

NextUpload ==
    \/ call_upload
    \/ upload_file \/ upload_store \/ upload_after_store
    \/ sm_embed \/ sm_after_call
    \/ store_insert \/ store_flush
    \/ finish

\* the one chunk of ShortFile as the upload loop stored it
UploadedRow ==
    NewRows(<<[text |-> file_chunks(ShortFile)[1],
               emb |-> get_embedding(file_chunks(ShortFile)[1]),
               meta |-> <<ShortFile.name, 0, 1>>]>>, 1)

FirstTurn == [user |-> alpha, assistant |-> Reply]

\* the assistant after a file was uploaded and a question answered; the
\* registry may have lost the connection since
InitRecover ==
    /\ adapters = <<[uri |-> InitUri, collection |-> TRUE]>>
    /\ nextUri = 1
    /\ vector_store = 1
    /\ opened = 0
    /\ MaybeLost
    /\ files = (InitUri :> [ReadyDb EXCEPT !.rows = UploadedRow, !.nextPk = 2])
    /\ materials_processed =
          (file_id(ShortFile) :> [name |-> ShortFile.name, chunks |-> 1])
    /\ conversation_history = <<FirstTurn>>
    /\ chat_history = <<FirstTurn>>
    /\ stack = <<>>
    /\ ret = None
    /\ stats = NoStats
    /\ parked = NoParked
    /\ budget = Budget(RecoverCalls, RecoverStale, 0, 0)

Spec == Init /\ [][Next]_vars

SpecOpen == InitOpen /\ [][NextOpen]_vars

SpecMaterial == InitMaterial /\ [][NextMaterial]_vars

SpecAssistant == InitAssistant /\ [][NextAssistant]_vars

SpecChat == InitChat /\ [][NextChat]_vars

SpecRetry == InitRetry /\ [][NextRetry]_vars

SpecRecover == InitRecover /\ [][NextMaterial]_vars

SpecRace == InitRace /\ [][NextRace]_vars

SpecUpload == InitUpload /\ [][NextUpload]_vars

SpecGenerate == InitMaterial /\ [][NextGenerate]_vars

\* an ordinary character, the newline and a sentence end
Alphabet == {"a", "nl", "."}

ChunkTexts == UNION {[1..n -> Alphabet] : n \in 0..MaxTextLen}

\* chunk_text(text, chunk_size, overlap) has been called
InitChunk ==
    /\ adapters = <<>>
    /\ nextUri = 0
    /\ conns = <<>>
    /\ files = <<>>
    /\ vector_store = 0
    /\ conversation_history = <<>>
    /\ chat_history = <<>>
    /\ opened = 0
    /\ ret = None
    /\ parked = NoParked
    /\ materials_processed = <<>>
    /\ budget = Budget(0, 0, 0, 0)
    /\ \E text \in ChunkTexts, chunk_size \in 1..MaxChunkSize,
          overlap \in 0..MaxOverlap :
         LET arg == [text |-> text, chunk_size |-> chunk_size, overlap |-> overlap]
         IN  /\ stack = <<Frame("chunk_text", "loop", 0, arg)>>
             /\ stats = [NoStats EXCEPT !.op = "chunk_text", !.arg = arg]

NextChunk == chunk_step \/ chunk_return

SpecChunk == InitChunk /\ [][NextChunk]_vars

\* the loop of chunk_text keeps running while it can
SpecChunkFair == SpecChunk /\ WF_vars(NextChunk)

(***************************************************************************)
(* Properties.                                                             *)
(***************************************************************************)
VectorFns == {"store_vectors", "search_vectors"}

Tries(op) == IF op = "store_vectors" THEN stats.cnt["store_try"]
             ELSE stats.cnt["search_try"]

\* C1: a store or search call never makes a third attempt: after a stale
\* connection on the first attempt and on the one retried attempt the call
\* ends with an error.
C1_NoThirdAttempt ==
    \A i \in 1..Len(stack) : stack[i].fn \in VectorFns => stack[i].d <= 2

\* the replayed call has the arguments of the call it replays
SameArguments ==
    \A i \in 1..Len(stack) :
        (i > 1 /\ stack[i].fn \in VectorFns /\ stack[i].d > 1) =>
            /\ stack[i - 1].fn = stack[i].fn
            /\ stack[i - 1].d = stack[i].d - 1
            /\ stack[i - 1].self = stack[i].self
            /\ stack[i - 1].arg = stack[i].arg

OneStaleEvent ==
    /\ Idle
    /\ stats.op \in VectorFns
    /\ stats.cnt["stale_call"] = 1
    /\ stats.cnt["other_fault"] = 0
    /\ ~stats.connRaised

NormalResult ==
    LET rows == files[adapters[opened].uri].rows IN
    /\ ret.kind = "val"
    /\ IF stats.op = "store_vectors"
       THEN /\ Len(ret.val) = Len(stats.arg)
            /\ \A i \in 1..Len(ret.val) :
                 \E k \in 1..Len(rows) :
                    /\ rows[k].id = ret.val[i]
                    /\ rows[k].text = stats.arg[i].text
       ELSE ret.val = search_hits(rows, stats.arg.q, stats.arg.top_k)

\* C2: when exactly one stale-connection event occurs during a store or
\* search call and the reconnect and the collection setup succeed, the call
\* is replayed once with the same arguments and returns its normal result.
C2_OneStaleEventRecovered ==
    /\ SameArguments
    /\ OneStaleEvent => (NormalResult /\ Tries(stats.op) = 2)

C2_Witness ==
    /\ OneStaleEvent
    /\ stats.op = "store_vectors"
    /\ ret.kind = "val"
    /\ Tries(stats.op) = 2

\* C3: a generate_response call reinitializes the vector store at most once
\* and re-runs itself one level deep: a stale connection of the retried run is
\* not retried again.
C3_OneReinitialization ==
    /\ stats.op = "generate_response" => stats.cnt["reinit_gr"] <= 1
    /\ \A i \in 1..Len(stack) :
          stack[i].fn = "generate_response" => stack[i].d <= 2

\* C4: _connect regenerates a session-scoped location at most once and makes
\* at most 6 connection attempts before it ends with an error.
C4_OneRegeneration ==
    \A i \in 1..Len(stack) :
        stack[i].fn = "_connect" => (stack[i].g <= 1 /\ stack[i].n <= 6)

ConnectFrames == {i \in 1..Len(stack) : stack[i].fn = "_connect"}

\* the step in which a connection attempt of the running _connect succeeds
ConnectSucceeds ==
    /\ Running("_connect", "attempt")
    /\ budget' = budget
    /\ stack' # stack

\* C5: with a location that is not session-scoped _connect makes exactly 3
\* attempts when all of them fail and then raises to the caller, which gets no
\* adapter; the first attempt that succeeds ends _connect.
C5_ThreeAttempts ==
    /\ [](/\ \A i \in ConnectFrames :
                ~is_session_scoped(adapters[stack[i].self].uri) =>
                    (stack[i].n < 3 /\ stack[i].g = 0)
          /\ stats.last_connect.raised =>
                /\ stats.last_connect.attempts = 3
                /\ stats.last_connect.regens = 0
                /\ ~stats.last_connect.scoped
                /\ stats.connRaised
          /\ (Idle /\ stats.op = "open" /\ stats.connRaised) =>
                (ret.kind = "stale" /\ opened = 0))
    /\ [][ConnectSucceeds =>
             /\ stack' = Pop
             /\ ret' = None
             /\ conns'[Top.self] = adapters[Top.self].uri
             /\ stats'.last_connect.attempts = Top.n + 1]_vars

C5_Witness ==
    /\ Idle
    /\ stats.op = "open"
    /\ stats.connRaised
    /\ stats.last_connect.attempts = 3
    /\ ret.kind = "stale"

\* no call is under way and the result of the last one has been taken
BetweenCalls == Idle /\ stats.op = "none"

\* the turns of the chat page that carry a reply of the LLM
IsAnswer(turn) == turn.assistant # ErrorString

Answered == SelectSeq(chat_history, IsAnswer)

\* C6 as stated: after M calls to generate_response the conversation history
\* has exactly M turns, the i-th with the query of the i-th call.
C6_OneTurnPerCall ==
    BetweenCalls =>
        /\ Len(conversation_history) = Len(chat_history)
        /\ \A i \in 1..Len(chat_history) :
              conversation_history[i].user = chat_history[i].user

\* C6: the conversation history holds, in call order, one turn for each
\* generate_response call that returned the reply of the LLM; a call that
\* returned an error string recorded no turn.
C6_OneTurnPerAnsweredCall ==
    BetweenCalls => conversation_history = Answered

C6_Witness ==
    /\ BetweenCalls
    /\ Len(chat_history) = 3
    /\ Len(conversation_history) = 2
    /\ chat_history[2].assistant = ErrorString

\* the turns recorded before the generate_response call that has just ended
HistoryBefore ==
    IF ret = Val(Reply)
    THEN SubSeq(conversation_history, 1, Len(conversation_history) - 1)
    ELSE conversation_history

PromptSent == Idle /\ stats.op = "generate_response" /\ stats.prompt # NoPrompt

\* C7: the history in the prompt of a generate_response call is the last
\* min(5, n) of the n turns recorded before it, in their order, and the
\* recorded history only ever grows by one turn at its end.
C7_LastFiveTurns ==
    /\ [](PromptSent =>
            LET n == Len(HistoryBefore)
                m == IF n < 5 THEN n ELSE 5
            IN  /\ Len(stats.prompt.history) = m
                /\ \A i \in 1..m :
                      stats.prompt.history[i] = HistoryBefore[n - m + i])
    /\ [][\/ conversation_history' = conversation_history
          \/ /\ Len(conversation_history') = Len(conversation_history) + 1
             /\ SubSeq(conversation_history', 1, Len(conversation_history))
                   = conversation_history]_vars

C7_Witness ==
    /\ PromptSent
    /\ Len(HistoryBefore) = 6
    /\ Len(stats.prompt.history) = 5
    /\ HistoryBefore[1].user # HistoryBefore[6].user

MaterialFns == {"store_material", "search_materials"}

\* the handler of a material call returns to its caller
MaterialReturns(pc) ==
    /\ stack # <<>>
    /\ Len(stack) = 1
    /\ Top.fn \in MaterialFns
    /\ Top.pc = pc
    /\ stack' # stack

\* C8: in store_material and search_materials a stale connection of the
\* first attempt causes one reinitialization with a fresh alias and location
\* and one retry of the embedding and the call; a stale connection of the
\* retry goes to the caller and nothing is reinitialized again.
C8_OneReinitOneRetry ==
    /\ [](stats.op \in MaterialFns =>
            LET reinits == stats.cnt[reinit_event(stats.op)] IN
            /\ reinits <= 1
            /\ stats.cnt["embed"] <= reinits + 1
            /\ \A i \in 1..Len(stack) :
                  (stack[i].fn = stats.op /\
                   stack[i].pc \in {"retry_embed", "after_retry"}) =>
                      /\ reinits = 1
                      /\ vector_store > 1
                      /\ \A a \in 1..(vector_store - 1) :
                            adapters[a].uri # adapters[vector_store].uri)
    /\ [][(MaterialReturns("after_call") /\ ret.kind = "stale") =>
             /\ stats'.cnt[reinit_event(Top.fn)] = 1
             /\ Len(stack') = 2
             /\ stack'[2].fn = "setup_vector_store"]_vars
    /\ [][(MaterialReturns("after_reinit") /\ ret.kind = "val") =>
             (Len(stack') = 1 /\ stack'[1].pc = "retry_embed")]_vars
    /\ [][(MaterialReturns("after_retry") /\ ret.kind = "stale") =>
             (stack' = <<>> /\ ret' = ret /\ stats'.cnt = stats.cnt)]_vars

C8_Witness ==
    /\ Idle
    /\ stats.op = "store_material"
    /\ stats.cnt["reinit_sm"] = 1
    /\ stats.cnt["embed"] = 2
    /\ ret.kind = "stale"

GenerationFns == {"summarize_material", "explain_concept",
                  "generate_flashcards", "generate_quiz"}

ErrorValue(op) ==
    IF op \in {"generate_flashcards", "generate_quiz"}
    THEN ErrorPlaceholder(op) ELSE ErrorString

\* a call of the embedding service, the LLM or the engine has failed
CallFailed == stats.cnt["other_fault"] > 0

C10_DropLeavesEmptyCollection ==
    (Idle /\ stats.op = "drop" /\ ret.kind = "val") =>
        LET db == files[adapters[opened].uri]
        IN  db.exists /\ db.loaded /\ db.rows = <<>>

\* a store_vectors call has returned its list of ids
StoreReturned == Idle /\ stats.op = "store_vectors" /\ ret.kind = "val"

OpenedRows == files[adapters[opened].uri].rows

\* the ids of the hits of search_vectors(q, top_k) on the opened adapter
HitIds(q, top_k) ==
    LET hits == search_hits(OpenedRows, q, top_k)
    IN  {hits[i].id : i \in 1..Len(hits)}

\* the stored entries whose embedding is q
SameEmbedding(q) == {k \in 1..Len(OpenedRows) : OpenedRows[k].embedding = q}

\* the ids returned are those of the last N rows of the collection, which
\* carry the N entries of the batch in their order
IdsInInsertionOrder ==
    LET n == Len(OpenedRows)
        N == Len(stats.arg)
    IN  /\ Len(ret.val) = N
        /\ n >= N
        /\ \A i \in 1..N :
              /\ ret.val[i] = OpenedRows[n - N + i].id
              /\ OpenedRows[n - N + i].text = stats.arg[i].text
              /\ OpenedRows[n - N + i].embedding = stats.arg[i].emb
              /\ OpenedRows[n - N + i].metadata = json_dumps(stats.arg[i].meta)
        /\ \A i, j \in 1..N : i < j => ret.val[i] < ret.val[j]

\* a store_vectors frame hands a value to its caller only from the flush
\* that follows its insert, or hands on the value of its replay
ReturnsAfterFlush ==
    (/\ stack # <<>>
     /\ Top.fn = "store_vectors"
     /\ stack' = Pop
     /\ ret'.kind = "val") => Top.pc \in {"flush", "after_retry"}

\* C11 as stated: store_vectors returns the N engine-assigned ids of its
\* batch in insertion order after insert and flush, and a search with the
\* embedding of an entry as the query returns the id of that entry.
C11_EveryIdRetrievable ==
    StoreReturned =>
        /\ IdsInInsertionOrder
        /\ \A i \in 1..Len(ret.val) :
              ret.val[i] \in HitIds(stats.arg[i].emb, default_top_k)

\* C11: store_vectors returns the N engine-assigned ids of its batch in
\* insertion order after insert and flush, and a search with the embedding of
\* an entry as the query returns the id of that entry whenever its limit
\* top_k is at least the number of stored entries with that embedding.
C11_IdsRetrievableWithinLimit ==
    /\ [](StoreReturned =>
            /\ IdsInInsertionOrder
            /\ \A i \in 1..Len(ret.val), top_k \in 1..default_top_k :
                  Cardinality(SameEmbedding(stats.arg[i].emb)) <= top_k =>
                      ret.val[i] \in HitIds(stats.arg[i].emb, top_k))
    /\ [][ReturnsAfterFlush]_vars

C11_Witness ==
    /\ StoreReturned
    /\ Len(ret.val) = 2
    /\ stats.arg[1].emb # stats.arg[2].emb
    /\ Len(OpenedRows) > 2
    /\ Cardinality(SameEmbedding(stats.arg[2].emb)) = 2
    /\ ret.val[2] \in HitIds(stats.arg[2].emb, 2)

StructuredFns == {"generate_flashcards", "generate_quiz"}

\* the replies whose text, once an optional fenced block is taken out of
\* it, is a JSON array
ValidAfterStripping(c) ==
    c \in { <<"J">>, <<"F", "j", "J", "F">>, <<"F", "J", "F">>,
            <<"G", "F", "j", "J", "F", "G">> }

\* the chat completion of the call returned a reply
GotReply == stats.cnt["llm"] = 1

\* C12: generate_flashcards and generate_quiz never raise: when the reply of
\* the LLM, after an optional fenced block is stripped, is not valid JSON
\* they return the one-element placeholder of their shape, and when the
\* embedding, the search or the LLM call fails they return the same shape
\* with the error message in it.
C12_PlaceholderNeverRaise ==
    (Idle /\ stats.op \in StructuredFns) =>
        /\ ret.kind = "val"
        /\ IF GotReply
           THEN IF ValidAfterStripping(stats.content)
                THEN ret.val = <<[parsed |-> "J"]>>
                ELSE ret.val = ParsePlaceholder(stats.op)
           ELSE /\ ret.val = ErrorPlaceholder(stats.op)
                /\ \/ stats.cnt["other_fault"] > 0
                   \/ stats.cnt["stale_call"] > 0

\* the search failed with a stale connection after the one reinitialization
C12_Witness ==
    /\ Idle
    /\ stats.op = "generate_quiz"
    /\ stats.cnt["reinit_srm"] = 1
    /\ budget.err = MaterialErr
    /\ ~GotReply
    /\ ret = Val(ErrorPlaceholder("generate_quiz"))

Chunking == Running("chunk_text", "loop")

\* the loop of chunk_text has ended
Chunked == Chunking /\ Top.n >= Len(Top.arg.text)

\* C13: for 0 <= overlap < chunk_size the chunks of chunk_text are slices of
\* the text, the first starts at index 0, every next one starts at or before
\* the end of the one before it and shares at most overlap characters with
\* it, the last ends at the end of the text, none is longer than chunk_size,
\* and the call returns them in this order.
C13_ChunksCoverText ==
    /\ [](Chunking /\ Top.arg.overlap < Top.arg.chunk_size =>
            LET text == Top.arg.text
                c == Top.loc
            IN  /\ \A i \in 1..Len(c) :
                      /\ 0 <= c[i].s /\ c[i].s <= c[i].e /\ c[i].e <= Len(text)
                      /\ c[i].chunk = SubSeq(text, c[i].s + 1, c[i].e)
                      /\ Len(c[i].chunk) <= Top.arg.chunk_size
                /\ c # <<>> => c[1].s = 0
                /\ \A i \in 1..(Len(c) - 1) :
                      /\ c[i + 1].s <= c[i].e
                      /\ c[i].e - c[i + 1].s <= Top.arg.overlap
                /\ (Chunked /\ text # <<>>) =>
                      (c # <<>> /\ c[Len(c)].e = Len(text)))
    /\ [][(Chunking /\ stack' = <<>>) =>
             /\ Chunked
             /\ ret'.kind = "val"
             /\ Len(ret'.val) = Len(Top.loc)
             /\ \A i \in 1..Len(Top.loc) : ret'.val[i] = Top.loc[i].chunk]_vars

\* a text cut at a boundary into chunks that share a character
C13_Witness ==
    /\ Chunked
    /\ Top.arg.overlap = 1
    /\ Top.arg.chunk_size = 3
    /\ Len(Top.loc) >= 3
    /\ Top.loc[1].e = 2
    /\ Top.loc[2].s = 1
    /\ Top.loc[3].s = Top.loc[2].e

\* the start index of the next iteration is beyond the one of this iteration
StartIncreases ==
    (Chunking /\ stack' # <<>>) => stack'[1].n > Top.n

\* C18: chunk_text terminates for every text, every chunk_size >= 1 and every
\* overlap >= 0, also an overlap >= chunk_size: the start index grows in
\* every iteration of the loop, also when a boundary character is found at
\* the first position of the window.
C18_ChunkTextTerminates ==
    /\ <>Idle
    /\ [][StartIncreases]_vars

\* the first chunk ended at a boundary found at the first position of the
\* window, with an overlap that is not less than the chunk size
C18_Witness ==
    /\ Idle
    /\ stats.op = "chunk_text"
    /\ stats.arg.overlap >= stats.arg.chunk_size
    /\ stats.arg.chunk_size > 1
    /\ Len(stats.arg.text) > 2
    /\ stats.arg.text[1] = "."
    /\ ret.kind = "val"
    /\ Len(ret.val) > 1
    /\ ret.val[1] = <<".">>

\* the call that has ended is the first one made on the opened adapter, whose
\* collection was empty before it
FirstCall == budget.calls = StoreCalls - 1

\* C16: a store_vectors call that returns normally has added each of its N
\* entries to the collection exactly once, wherever a single stale-connection
\* event falls inside the call, also when the insert succeeded and the flush
\* raised the stale-connection error.
C16_EachEntryOnce ==
    (StoreReturned /\ OneStaleEvent /\ FirstCall) =>
        /\ Len(OpenedRows) = Len(stats.arg)
        /\ \A i \in 1..Len(stats.arg) :
              /\ OpenedRows[i].text = stats.arg[i].text
              /\ OpenedRows[i].embedding = stats.arg[i].emb

\* the running caller is about to make an engine call through an adapter
\* whose connection or collection is not there
HalfReinitialized ==
    /\ stack # <<>>
    /\ \/ Top.fn = "store_vectors" /\ Top.pc \in {"insert", "flush"}
       \/ Top.fn = "search_vectors" /\ Top.pc = "search"
    /\ \/ conns[Top.self] = NoConn
       \/ ~Db(Top.self).exists
       \/ ~Db(Top.self).loaded

ReinitFns == {"_connect", "_setup_collection", "drop"}

\* the other caller is inside a reconnect, a collection setup or a drop of
\* the same adapter, or inside the handler that makes the first two
OtherReinitializing ==
    \E i \in 1..Len(parked.stack) :
        /\ parked.stack[i].self = Top.self
        /\ \/ parked.stack[i].fn \in ReinitFns
           \/ /\ parked.stack[i].fn \in {"store_vectors", "search_vectors"}
              /\ parked.stack[i].pc \in {"after_connect", "after_setup"}

\* a caller has seen the adapter between the disconnect and the connect of
\* a reconnect made by the other caller
ReconnectSeen == budget.stale < RaceWindows

\* C14: with two concurrent callers of one assistant a store_material or
\* generate_response call can use an adapter whose connection or collection
\* is not yet established again; this happens only while the other caller
\* reinitializes the adapter both share or after a reconnect of one caller
\* was cut in two by the other, and the reference of the assistant itself
\* only ever names an adapter whose construction has ended.
C14_HalfReinitializedInRace ==
    /\ HalfReinitialized => (OtherReinitializing \/ ReconnectSeen)
    /\ adapters[vector_store].collection

C14_Witness ==
    /\ HalfReinitialized
    /\ OtherReinitializing
    /\ stats.op \in {"store_material", "generate_response"}
    /\ Top.self = vector_store
    /\ conns[Top.self] # NoConn
    /\ ~Db(Top.self).exists

Uploaded == Idle /\ stats.op = "upload"

ActiveRows == files[adapters[vector_store].uri].rows

\* chunk i of file f lies in the collection with its metadata
ChunkStored(f, i) ==
    LET chunks == file_chunks(f) IN
    \E k \in 1..Len(ActiveRows) :
        /\ ActiveRows[k].text = chunks[i]
        /\ ActiveRows[k].metadata = json_dumps(<<f.name, i - 1, Len(chunks)>>)

\* C15: a run of the upload loop handles every uploaded file, in order, and
\* tells about each of them once; a failure of the extraction or of the
\* storing of a file is told as an error of that file and the files after it
\* are still handled; materials_processed names a file only if all of its
\* chunks were stored.
C15_FailurePerFile ==
    /\ Uploaded =>
          /\ ret.kind = "val"
          /\ Len(stats.content) = Len(stats.arg)
          /\ \A i \in 1..Len(stats.arg) :
                /\ stats.content[i].file = file_id(stats.arg[i])
                /\ ~stats.arg[i].readable => stats.content[i].kind = "error"
                /\ stats.content[i].kind = "error" =>
                      /\ ~stats.arg[i].readable \/ budget.err < UploadErr
                      /\ \/ file_id(stats.arg[i]) \notin DOMAIN materials_processed
                         \/ \E j \in 1..Len(stats.arg) :
                               /\ stats.content[j].kind = "success"
                               /\ stats.arg[j] = stats.arg[i]
                /\ stats.content[i].kind \in {"success", "info"} =>
                      file_id(stats.arg[i]) \in DOMAIN materials_processed
    /\ \A f \in KnownFiles :
          file_id(f) \in DOMAIN materials_processed =>
              /\ f.readable
              /\ materials_processed[file_id(f)].chunks = Len(file_chunks(f))
              /\ \A i \in 1..Len(file_chunks(f)) : ChunkStored(f, i)

\* the second chunk of the first file failed after its first chunk was
\* stored; the file after it was stored and recorded
C15_Witness ==
    /\ Uploaded
    /\ stats.arg = <<LongFile, ShortFile>>
    /\ stats.content = <<Report(LongFile, "error"), Report(ShortFile, "success")>>
    /\ ChunkStored(LongFile, 1)
    /\ ~ChunkStored(LongFile, 2)
    /\ DOMAIN materials_processed = {file_id(ShortFile)}

\* setup_vector_store has replaced the adapter the assistant began with
Recovered == vector_store # 1

\* the materials stored before the recovery
IsOld(row) == row.text = UploadedRow[1].text

\* C17: after the assistant has recovered from a stale connection with
\* setup_vector_store its adapter is a new one at a location no adapter had
\* before; its collection holds none of the materials stored before and no
\* search returns them, while materials_processed and the conversation
\* history are as they were.
C17_RecoveryLosesMaterials ==
    /\ [](/\ Recovered =>
                /\ \A a \in 1..(vector_store - 1) :
                      adapters[a].uri # adapters[vector_store].uri
                /\ \A k \in 1..Len(ActiveRows) : ~IsOld(ActiveRows[k])
                /\ (Idle /\ stats.op = "search_materials" /\ ret.kind = "val") =>
                      \A i \in 1..Len(ret.val) : ret.val[i].text # UploadedRow[1].text
          /\ file_id(ShortFile) \in DOMAIN materials_processed
          /\ conversation_history = <<FirstTurn>>)
    /\ [][vector_store' # vector_store =>
             /\ Running("setup_vector_store", "first")
                   \/ Running("setup_vector_store", "second")
             /\ vector_store' = Len(adapters)
             /\ vector_store' > vector_store
             /\ files'[adapters'[vector_store'].uri].rows = <<>>
             /\ materials_processed' = materials_processed
             /\ conversation_history' = conversation_history]_vars

\* a search after the recovery finds nothing, the file is still recorded as
\* processed and its chunk lies in the database that was left
C17_Witness ==
    /\ Idle
    /\ stats.op = "search_materials"
    /\ stats.cnt["reinit_srm"] = 0
    /\ Recovered
    /\ ret = Val(<<>>)
    /\ file_id(ShortFile) \in DOMAIN materials_processed
    /\ files[InitUri].rows = UploadedRow

====
